---- MODULE Spec2Model ----
\* State-machine model of mini_mem_profiler.MemoryProfiler:
\*   - profile_function(interval) -> decorator -> wrapper(*args, **kwargs)
\*   - profile_block(interval) -> BlockProfiler used in a `with` statement
\* The process memory (psutil rss) and the wall clock (time.time) are the
\* environment; memory_profiler.memory_usage is the sampling collaborator the
\* wrapper calls, modelled by what its call at mini_profiler.py:42-47 does:
\* it runs the target while a MemTimer samples, and with retval=True returns
\* the 2-tuple (list of samples, return value); with timestamps=True every
\* sample is a (memory, timestamp) tuple.
EXTENDS Integers, Sequences, FiniteSets, TLC

\* ---------------------------------------------------------------- bounds
MaxMemMB == 1        \* rss ranges over 0..MaxMemMB mebibytes
MaxWorkSteps == 1    \* steps (allocation + clock tick) one run of the work takes
MaxPolls == 2        \* poll timeouts of the sampler during one run of the work
MaxCalls == 1        \* calls of the decorated function in one behaviour
MaxEntries == 2      \* entries of the scope in one behaviour

\* ------------------------------------------------------------- constants
KiB == 1024

\* interval is counted in microseconds (1 = 1e-6 s); 100000 is the default 0.1
Intervals == {-1, 0, 1}
RssValues == {k * KiB * KiB : k \in 0..MaxMemMB}
ArgSet == {"a1", "a2"}
\* what the work may raise: errors deriving from Exception, and errors that
\* derive from BaseException only (sys.exit(), Ctrl-C)
BaseOnlyErrors == {"SystemExit", "KeyboardInterrupt"}
WorkErrors == {"ValueError", "KeyError"} \cup BaseOnlyErrors

\* ----------------------------------------------------------- Python values
None == <<>>
Some(v) == <<v>>

Num(n) == [tag |-> "num", val |-> n]
Ratio(s, n) == [tag |-> "ratio", val |-> <<s, n>>]
PyObj(a) == [tag |-> "obj", val |-> a]
PyList(s) == [tag |-> "list", val |-> s]
PyTuple(s) == [tag |-> "tuple", val |-> s]
PyErr(e) == [tag |-> "error", val |-> e]

IsSeqVal(x) == x.tag \in {"list", "tuple"}

\* psutil.Process().memory_info().rss / 1024 / 1024
ToMB(r) == (r \div KiB) \div KiB

\* x[:-1] on a tuple
PySliceDropLast(x) ==
  PyTuple(IF Len(x.val) = 0 THEN <<>> ELSE SubSeq(x.val, 1, Len(x.val) - 1))

\* x[0] and x[-1]
PyFirst(x) == IF Len(x.val) = 0 THEN PyErr("IndexError") ELSE x.val[1]
PyLast(x) == IF Len(x.val) = 0 THEN PyErr("IndexError") ELSE x.val[Len(x.val)]

\* a == b: never raises; values of different kinds are unequal, sequences
\* are equal when of one kind, one length and equal item by item, objects
\* when they are the same object
RECURSIVE PyEq(_, _)
PyEq(a, b) ==
  IF a.tag # b.tag THEN FALSE
  ELSE IF IsSeqVal(a) THEN
    /\ Len(a.val) = Len(b.val)
    /\ \A i \in 1..Len(a.val) : PyEq(a.val[i], b.val[i])
  ELSE a.val = b.val

\* ordering of a and b: "lt", "eq", "gt", or "err" where < and > raise
\* TypeError. Numbers are ordered by value. Two sequences of one kind are
\* ordered by their first pair of items that are not ==, and only that pair is
\* compared; without such a pair the shorter sequence is the smaller.
RECURSIVE PyCmp(_, _)
PyCmp(a, b) ==
  IF a.tag = "num" /\ b.tag = "num" THEN
    IF a.val < b.val THEN "lt" ELSE IF a.val > b.val THEN "gt" ELSE "eq"
  ELSE IF IsSeqVal(a) /\ a.tag = b.tag THEN
    LET n == IF Len(a.val) < Len(b.val) THEN Len(a.val) ELSE Len(b.val)
        diff == {i \in 1..n : ~PyEq(a.val[i], b.val[i])}
    IN IF diff = {} THEN
         IF Len(a.val) < Len(b.val) THEN "lt"
         ELSE IF Len(a.val) > Len(b.val) THEN "gt" ELSE "eq"
       ELSE LET i == CHOOSE k \in diff : \A j \in diff : k <= j
            IN PyCmp(a.val[i], b.val[i])
  ELSE "err"

PyLT(a, b) == PyCmp(a, b) = "lt"
PyComparable(a, b) == PyCmp(a, b) # "err"

\* max(x): ValueError on an empty sequence; else the first item is the running
\* maximum and every later item is compared with it (item > maximum) and
\* replaces it when greater, so a one-element sequence is never compared
RECURSIVE MaxFrom(_, _, _)
MaxFrom(m, s, i) ==
  IF i > Len(s) THEN m
  ELSE LET c == PyCmp(s[i], m)
       IN IF c = "err" THEN PyErr("TypeError")
          ELSE MaxFrom(IF c = "gt" THEN s[i] ELSE m, s, i + 1)

PyMax(x) ==
  IF Len(x.val) = 0 THEN PyErr("ValueError") ELSE MaxFrom(x.val[1], x.val, 2)

\* sum(x): starts from the integer 0 and adds every element with +
RECURSIVE SumFrom(_, _, _)
SumFrom(acc, s, i) ==
  IF i > Len(s) THEN Num(acc)
  ELSE IF s[i].tag = "num" THEN SumFrom(acc + s[i].val, s, i + 1)
  ELSE PyErr("TypeError")

PySum(x) == SumFrom(0, x.val, 1)

\* a / b (true division) and a - b
PyDiv(a, n) ==
  IF a.tag # "num" THEN PyErr("TypeError")
  ELSE IF n = 0 THEN PyErr("ZeroDivisionError")
  ELSE Ratio(a.val, n)

PySub(a, b) ==
  IF a.tag = "num" /\ b.tag = "num" THEN Num(a.val - b.val) ELSE PyErr("TypeError")

\* bool(d) of a dict: true iff it has at least one key
PyTruthyDict(d) == DOMAIN d # {}

\* ------------------------------------------------------------------ state
VARIABLES
  pc,           \* position of the caller / wrapper / with statement
  rss,          \* resident set size of the process, bytes
  now,          \* time.time(), ticks
  runs,         \* wrapper calls and scope entries made so far
  interval,     \* the interval the factory was given (None before)
  cur_interval, \* memory_usage's local interval
  args,         \* the arguments of the current wrapper call
  initial_mem,  \* wrapper local, None until line 33 ran
  start_time,   \* wrapper local, None until line 36 ran
  sampler,      \* the MemTimer of the current memory_usage iteration
  workCalls,    \* invocations of func during the current wrapper call
  workSteps,    \* steps taken by the running work
  seenArgs,     \* the arguments func received, one entry per invocation
  returned,     \* what the last run of func produced (value or error)
  result,       \* what memory_usage returned
  outcome,      \* what the caller of the wrapper / with statement receives
  emitted,      \* logger.info lines of the current call / scope
  handle,       \* the BlockProfiler instance bound by `as`
  exitReturn,   \* the value __exit__ returned to the with statement
  bodyExit,     \* how the block body ended
  trace,        \* measurement and work events of the current call / scope
  enterCount,   \* __enter__ calls
  exitCount     \* __exit__ calls

vars == <<pc, rss, now, runs, interval, cur_interval, args, initial_mem,
          start_time, sampler, workCalls, workSteps, seenArgs, returned,
          result, outcome, emitted, handle, exitReturn, bodyExit, trace,
          enterCount, exitCount>>

Pending == [kind |-> "pending", error |-> "", value |-> None, summary |-> None]
Raised(e) == [kind |-> "raised", error |-> e, value |-> None, summary |-> None]
Returned(v, s) == [kind |-> "returned", error |-> "", value |-> Some(v), summary |-> Some(s)]
Completed == [kind |-> "completed", error |-> "", value |-> None, summary |-> None]
ReturnedEarly == [kind |-> "returned_early", error |-> "", value |-> None, summary |-> None]

SamplerOff == [pc |-> "off", stop |-> FALSE, mem_usage |-> <<>>, n |-> 0, polls |-> 0]
NoBodyExit == [kind |-> "none", error |-> ""]

\* one MemTimer measurement with timestamps=True: (memory in MiB, time)
Sample(r, t) == PyTuple(<<Num(ToMB(r)), Num(t)>>)

\* the value func computes from the arguments it is called with
FuncValue(a) == PyObj(a)

FnLogLines == <<"Memory Profile for func", "separator", "Initial memory",
                "Peak memory", "Average memory", "Memory increase", "Duration">>
BlockLogLines == <<"Memory Profile for code block", "separator", "Initial memory",
                   "Final memory", "Memory increase", "Duration">>

Init ==
  /\ pc = "idle"
  /\ rss \in RssValues
  /\ now = 0
  /\ runs = 0
  /\ interval = None
  /\ cur_interval = 0
  /\ args = ""
  /\ initial_mem = None
  /\ start_time = None
  /\ sampler = SamplerOff
  /\ workCalls = 0
  /\ workSteps = 0
  /\ seenArgs = <<>>
  /\ returned = None
  /\ result = None
  /\ outcome = Pending
  /\ emitted = <<>>
  /\ handle = None
  /\ exitReturn = None
  /\ bodyExit = NoBodyExit
  /\ trace = <<>>
  /\ enterCount = 0
  /\ exitCount = 0

\* ------------------------------------------------- function-scope wrapper
\* profile_function(interval): builds the decorator; the interval is stored
\* in the closure as given, func is decorated but not called
ProfileFunction(i) ==
  /\ pc = "idle"
  /\ interval' = Some(i)
  /\ pc' = "decorated"
  /\ UNCHANGED <<rss, now, runs, cur_interval, args, initial_mem, start_time,
                 sampler, workCalls, workSteps, seenArgs, returned, result,
                 outcome, emitted, handle, exitReturn, bodyExit, trace,
                 enterCount, exitCount>>

\* (variant: the initial query is not made before the work, a placeholder 0
\* stands in for it)
WrapperBegin_NoInitialQuery(r, t) ==
  [initial_mem |-> Some(0), start_time |-> Some(t), events |-> <<"start_time">>]

\* wrapper, lines 33-36: initial memory query, then the start timestamp
WrapperBegin(r, t) ==
  [initial_mem |-> Some(ToMB(r)), start_time |-> Some(t),
   events |-> <<"initial_query", "start_time">>]

CallWrapper(a) ==
  /\ pc \in {"decorated", "fn_done"}
  /\ runs < MaxCalls
  /\ LET b == WrapperBegin(rss, now)
     IN /\ initial_mem' = b.initial_mem
        /\ start_time' = b.start_time
        /\ trace' = b.events
  /\ runs' = runs + 1
  /\ args' = a
  /\ cur_interval' = interval[1]
  /\ sampler' = SamplerOff
  /\ workCalls' = 0
  /\ workSteps' = 0
  /\ seenArgs' = <<>>
  /\ returned' = None
  /\ result' = None
  /\ outcome' = Pending
  /\ emitted' = <<>>
  /\ pc' = "mu_loop"
  /\ UNCHANGED <<rss, now, interval, handle, exitReturn, bodyExit,
                 enterCount, exitCount>>

\* memory_usage, one iteration: a MemTimer is created (its constructor takes
\* the first measurement) and started, then profile_target() calls
\* func(*args, **kwargs)
MuStartTimer ==
  /\ pc = "mu_loop"
  /\ sampler' = [pc |-> "measure", stop |-> FALSE,
                 mem_usage |-> <<Sample(rss, now)>>, n |-> 1, polls |-> 0]
  /\ workCalls' = workCalls + 1
  /\ seenArgs' = Append(seenArgs, args)
  /\ workSteps' = 0
  /\ trace' = Append(trace, "work_start")
  /\ pc' = "work"
  /\ UNCHANGED <<rss, now, runs, interval, cur_interval, args, initial_mem,
                 start_time, returned, result, outcome, emitted, handle,
                 exitReturn, bodyExit, enterCount, exitCount>>

\* the work allocates or frees memory and time passes
WorkStep(r) ==
  /\ pc = "work"
  /\ workSteps < MaxWorkSteps
  /\ rss' = r
  /\ now' = now + 1
  /\ workSteps' = workSteps + 1
  /\ UNCHANGED <<pc, runs, interval, cur_interval, args, initial_mem, start_time,
                 sampler, workCalls, seenArgs, returned, result, outcome,
                 emitted, handle, exitReturn, bodyExit, trace, enterCount,
                 exitCount>>

\* func returns; memory_usage tells the MemTimer to finish
WorkReturn ==
  /\ pc = "work"
  /\ returned' = Some(FuncValue(args))
  /\ trace' = Append(trace, "work_end")
  /\ pc' = "mu_wait"
  /\ UNCHANGED <<rss, now, runs, interval, cur_interval, args, initial_mem,
                 start_time, sampler, workCalls, workSteps, seenArgs, result,
                 outcome, emitted, handle, exitReturn, bodyExit, enterCount,
                 exitCount>>

\* func raises
WorkRaise(e) ==
  /\ pc = "work"
  /\ returned' = Some(PyErr(e))
  /\ trace' = Append(trace, "work_end")
  /\ pc' = "mu_except"
  /\ UNCHANGED <<rss, now, runs, interval, cur_interval, args, initial_mem,
                 start_time, sampler, workCalls, workSteps, seenArgs, result,
                 outcome, emitted, handle, exitReturn, bodyExit, enterCount,
                 exitCount>>

\* MemTimer loop body: take a measurement; after the stop signal was seen this
\* is the final one and the series is sent back
SamplerMeasure ==
  /\ sampler.pc = "measure"
  /\ pc \in {"work", "mu_wait"}
  /\ sampler' = [sampler EXCEPT
                   !.mem_usage = Append(@, Sample(rss, now)),
                   !.n = @ + 1,
                   !.pc = IF sampler.stop THEN "sent" ELSE "poll"]
  /\ trace' = IF sampler.stop THEN Append(trace, "final_sample") ELSE trace
  /\ UNCHANGED <<pc, rss, now, runs, interval, cur_interval, args, initial_mem,
                 start_time, workCalls, workSteps, seenArgs, returned, result,
                 outcome, emitted, handle, exitReturn, bodyExit, enterCount,
                 exitCount>>

\* MemTimer: pipe.poll(interval) times out while the work is still running
SamplerPollTimeout ==
  /\ sampler.pc = "poll"
  /\ pc = "work"
  /\ sampler.polls < MaxPolls
  /\ sampler' = [sampler EXCEPT !.pc = "measure", !.polls = @ + 1]
  /\ UNCHANGED <<pc, rss, now, runs, interval, cur_interval, args, initial_mem,
                 start_time, workCalls, workSteps, seenArgs, returned, result,
                 outcome, emitted, handle, exitReturn, bodyExit, trace,
                 enterCount, exitCount>>

\* MemTimer: pipe.poll(interval) sees the finish message
SamplerPollWake ==
  /\ sampler.pc = "poll"
  /\ pc = "mu_wait"
  /\ sampler' = [sampler EXCEPT !.pc = "measure", !.stop = TRUE]
  /\ UNCHANGED <<pc, rss, now, runs, interval, cur_interval, args, initial_mem,
                 start_time, workCalls, workSteps, seenArgs, returned, result,
                 outcome, emitted, handle, exitReturn, bodyExit, trace,
                 enterCount, exitCount>>

\* memory_usage with retval=True: the pair (measurements, return value)
MuResult(mem_usage, ret) == PyTuple(<<PyList(mem_usage), ret>>)

\* memory_usage stops iterating once it has more than 4 measurements or the
\* interval is below 1e-6 s; else it divides the interval by 10 and runs the
\* target again
MuEnough(n, ivl) == n > 4 \/ ivl < 1

\* memory_usage receives the series, joins the MemTimer and either returns or
\* iterates again
MuCollect ==
  /\ pc = "mu_wait"
  /\ sampler.pc = "sent"
  /\ IF MuEnough(sampler.n, cur_interval)
       THEN /\ sampler' = [sampler EXCEPT !.pc = "joined"]
            /\ result' = Some(MuResult(sampler.mem_usage, returned[1]))
            /\ pc' = "unpack"
            /\ UNCHANGED cur_interval
       ELSE /\ sampler' = [SamplerOff EXCEPT !.pc = "joined"]
            /\ cur_interval' = cur_interval \div 10
            /\ pc' = "mu_loop"
            /\ UNCHANGED result
  /\ UNCHANGED <<rss, now, runs, interval, args, initial_mem, start_time,
                 workCalls, workSteps, seenArgs, returned, outcome, emitted,
                 handle, exitReturn, bodyExit, trace, enterCount, exitCount>>

\* memory_usage on an error of the target: its handler is `except Exception`,
\* which kills the MemTimer and raises the error again; an error that is no
\* Exception passes it by and leaves memory_usage with the MemTimer still
\* running. The wrapper (lines 42-47) has no try/finally of its own around
\* the call, so nothing else stops the MemTimer.
MuHandlerCatches(err) == err.val \notin BaseOnlyErrors

MuExcept ==
  /\ pc = "mu_except"
  /\ sampler' = IF MuHandlerCatches(returned[1])
                  THEN [sampler EXCEPT !.pc = "killed"]
                  ELSE sampler
  /\ pc' = "mu_raised"
  /\ UNCHANGED <<rss, now, runs, interval, cur_interval, args, initial_mem,
                 start_time, workCalls, workSteps, seenArgs, returned, result,
                 outcome, emitted, handle, exitReturn, bodyExit, trace,
                 enterCount, exitCount>>

\* wrapper, lines 42-47 when memory_usage raises: there is no handler, the
\* exception leaves the wrapper as it is and lines 50-81 do not run
Propagate(err) == [outcome |-> Raised(err.val), emitted |-> <<>>]

WrapperPropagate ==
  /\ pc = "mu_raised"
  /\ LET p == Propagate(returned[1])
     IN /\ outcome' = p.outcome
        /\ emitted' = emitted \o p.emitted
  /\ pc' = "fn_done"
  /\ UNCHANGED <<rss, now, runs, interval, cur_interval, args, initial_mem,
                 start_time, sampler, workCalls, workSteps, seenArgs, returned,
                 result, handle, exitReturn, bodyExit, trace, enterCount,
                 exitCount>>

\* wrapper, lines 50-81: unpack, statistics, log, return
WrapperFinish(res, init, st, t) ==
  LET mem_measurements == PySliceDropLast(res)
      timestamps == PyFirst(res)
      return_value == PyLast(res)
      max_mem == PyMax(mem_measurements)
      total == PySum(mem_measurements)
      avg_mem == IF total.tag = "error" THEN total
                 ELSE PyDiv(total, Len(mem_measurements.val))
      mem_diff == PySub(max_mem, Num(init))
      fail(e) == [outcome |-> Raised(e), emitted |-> <<>>, events |-> <<>>]
  IN IF timestamps.tag = "error" THEN fail(timestamps.val)
     ELSE IF max_mem.tag = "error" THEN fail(max_mem.val)
     ELSE IF avg_mem.tag = "error" THEN fail(avg_mem.val)
     ELSE IF mem_diff.tag = "error" THEN fail(mem_diff.val)
     ELSE [outcome |-> Returned(return_value,
                         [initial_mem |-> Num(init), peak_mem |-> max_mem,
                          avg_mem |-> avg_mem, mem_diff |-> mem_diff,
                          duration |-> Num(t - st), timestamps |-> timestamps,
                          measurements |-> mem_measurements]),
           emitted |-> FnLogLines,
           events |-> <<"end_time">>]

WrapperStats ==
  /\ pc = "unpack"
  /\ LET f == WrapperFinish(result[1], initial_mem[1], start_time[1], now)
     IN /\ outcome' = f.outcome
        /\ emitted' = emitted \o f.emitted
        /\ trace' = trace \o f.events
  /\ pc' = "fn_done"
  /\ UNCHANGED <<rss, now, runs, interval, cur_interval, args, initial_mem,
                 start_time, sampler, workCalls, workSteps, seenArgs, returned,
                 result, handle, exitReturn, bodyExit, enterCount, exitCount>>

\* ------------------------------------------------------ block-scope wrapper
\* BlockProfiler.__init__
BlockProfiler_init(i) ==
  [interval |-> Some(i), logger |-> "logger", start_mem |-> None,
   measurements |-> <<>>, start_time |-> None]

\* profile_block(interval): returns BlockProfiler(interval, self.logger)
ProfileBlock(i) ==
  /\ pc = "idle"
  /\ interval' = Some(i)
  /\ handle' = Some(BlockProfiler_init(i))
  /\ pc' = "block_made"
  /\ UNCHANGED <<rss, now, runs, cur_interval, args, initial_mem, start_time,
                 sampler, workCalls, workSteps, seenArgs, returned, result,
                 outcome, emitted, exitReturn, bodyExit, trace, enterCount,
                 exitCount>>

\* BlockProfiler.__enter__: start memory, start time, return self
BlockProfiler_enter(h, r, t) ==
  [self |-> [h EXCEPT !.start_mem = Some(ToMB(r)), !.start_time = Some(t)],
   events |-> <<"initial_query", "start_time">>]

\* BlockProfiler.__exit__: end time, end memory, duration, delta, six log
\* lines; the summary dict is the return value and self is not assigned to
BlockProfiler_exit(h, r, t) ==
  LET end_time == t
      end_mem == ToMB(r)
      duration == end_time - h.start_time[1]
      mem_diff == end_mem - h.start_mem[1]
  IN [self |-> h,
      ran |-> 1,
      emitted |-> BlockLogLines,
      events |-> <<"end_time", "final_query">>,
      ret |-> [start_mem |-> h.start_mem[1], end_mem |-> end_mem,
               mem_diff |-> mem_diff, duration |-> duration]]

\* `with profiler.profile_block() as block:` calls __enter__, binds its
\* result and starts the body
WithEnter ==
  /\ pc \in {"block_made", "block_closed"}
  /\ runs < MaxEntries
  /\ LET e == BlockProfiler_enter(handle[1], rss, now)
     IN /\ handle' = Some(e.self)
        /\ trace' = Append(e.events, "work_start")
  /\ runs' = runs + 1
  /\ enterCount' = enterCount + 1
  /\ workSteps' = 0
  /\ bodyExit' = NoBodyExit
  /\ exitReturn' = None
  /\ outcome' = Pending
  /\ emitted' = <<>>
  /\ pc' = "block_body"
  /\ UNCHANGED <<rss, now, interval, cur_interval, args, initial_mem,
                 start_time, sampler, workCalls, seenArgs, returned, result,
                 exitCount>>

\* the block body allocates or frees memory and time passes
BodyStep(r) ==
  /\ pc = "block_body"
  /\ workSteps < MaxWorkSteps
  /\ rss' = r
  /\ now' = now + 1
  /\ workSteps' = workSteps + 1
  /\ UNCHANGED <<pc, runs, interval, cur_interval, args, initial_mem, start_time,
                 sampler, workCalls, seenArgs, returned, result, outcome,
                 emitted, handle, exitReturn, bodyExit, trace, enterCount,
                 exitCount>>

\* the body runs off its end ("normal") or leaves by a return statement
BodyEnd(k) ==
  /\ pc = "block_body"
  /\ bodyExit' = [kind |-> k, error |-> ""]
  /\ trace' = Append(trace, "work_end")
  /\ pc' = "block_exiting"
  /\ UNCHANGED <<rss, now, runs, interval, cur_interval, args, initial_mem,
                 start_time, sampler, workCalls, workSteps, seenArgs, returned,
                 result, outcome, emitted, handle, exitReturn, enterCount,
                 exitCount>>

\* the body raises
BodyRaise(e) ==
  /\ pc = "block_body"
  /\ bodyExit' = [kind |-> "raise", error |-> e]
  /\ trace' = Append(trace, "work_end")
  /\ pc' = "block_exiting"
  /\ UNCHANGED <<rss, now, runs, interval, cur_interval, args, initial_mem,
                 start_time, sampler, workCalls, workSteps, seenArgs, returned,
                 result, outcome, emitted, handle, exitReturn, enterCount,
                 exitCount>>

\* what the with statement does with the value of __exit__: an exception of
\* the body is suppressed iff the value is true; the value is then dropped
WithOutcome(b, ret) ==
  IF b.kind = "raise"
    THEN IF PyTruthyDict(ret) THEN Completed ELSE Raised(b.error)
  ELSE IF b.kind = "return" THEN ReturnedEarly
  ELSE Completed

\* (variant: the exit logic is called on the paths without an error only)
WithExit_SkipOnRaise ==
  /\ pc = "block_exiting"
  /\ LET x == BlockProfiler_exit(handle[1], rss, now)
         skip == bodyExit.kind = "raise"
     IN /\ handle' = Some(x.self)
        /\ exitReturn' = IF skip THEN None ELSE Some(x.ret)
        /\ exitCount' = IF skip THEN exitCount ELSE exitCount + x.ran
        /\ emitted' = IF skip THEN emitted ELSE emitted \o x.emitted
        /\ trace' = IF skip THEN trace ELSE trace \o x.events
        /\ outcome' = IF skip THEN Raised(bodyExit.error)
                      ELSE WithOutcome(bodyExit, x.ret)
  /\ pc' = "block_closed"
  /\ UNCHANGED <<rss, now, runs, interval, cur_interval, args, initial_mem,
                 start_time, sampler, workCalls, workSteps, seenArgs, returned,
                 result, bodyExit, enterCount>>

\* the with statement leaves the body: __exit__ is called
WithExit ==
  /\ pc = "block_exiting"
  /\ LET x == BlockProfiler_exit(handle[1], rss, now)
     IN /\ handle' = Some(x.self)
        /\ exitReturn' = Some(x.ret)
        /\ exitCount' = exitCount + x.ran
        /\ emitted' = emitted \o x.emitted
        /\ trace' = trace \o x.events
        /\ outcome' = WithOutcome(bodyExit, x.ret)
  /\ pc' = "block_closed"
  /\ UNCHANGED <<rss, now, runs, interval, cur_interval, args, initial_mem,
                 start_time, sampler, workCalls, workSteps, seenArgs, returned,
                 result, bodyExit, enterCount>>

\* ------------------------------------------------------------ specification
Next ==
  \/ \E i \in Intervals : ProfileFunction(i)
  \/ \E a \in ArgSet : CallWrapper(a)
  \/ MuStartTimer
  \/ \E r \in RssValues : WorkStep(r)
  \/ WorkReturn
  \/ \E e \in WorkErrors : WorkRaise(e)
  \/ SamplerMeasure
  \/ SamplerPollTimeout
  \/ SamplerPollWake
  \/ MuCollect
  \/ MuExcept
  \/ WrapperPropagate
  \/ WrapperStats
  \/ \E i \in Intervals : ProfileBlock(i)
  \/ WithEnter
  \/ \E r \in RssValues : BodyStep(r)
  \/ \E k \in {"normal", "return"} : BodyEnd(k)
  \/ \E e \in WorkErrors : BodyRaise(e)
  \/ WithExit

Spec == Init /\ [][Next]_vars

\* ------------------------------------------------------------------ claims
WorkReturnedNormally == returned # None /\ returned[1].tag # "error"
WorkRaised == returned # None /\ returned[1].tag = "error"
FnDone == pc = "fn_done"
ScopeClosed == pc = "block_closed"

\* the memory values of the samples memory_usage returned
SampleMems == [i \in 1..Len(result[1].val[1].val) |-> result[1].val[1].val[i].val[1].val]
SeqMax(q) == CHOOSE m \in {q[i] : i \in DOMAIN q} : \A i \in DOMAIN q : q[i] <= m
SeqMin(q) == CHOOSE m \in {q[i] : i \in DOMAIN q} : \A i \in DOMAIN q : m <= q[i]
RECURSIVE SeqSum(_)
SeqSum(q) == IF q = <<>> THEN 0 ELSE Head(q) + SeqSum(Tail(q))

\* C1: when the body of a profile_block scope raises, the caller of the with
\* statement receives that same error after __exit__ has run.
C1_BlockErrorPropagates ==
  (ScopeClosed /\ bodyExit.kind = "raise") => outcome = Raised(bodyExit.error)

\* C2: after the scope has closed, every field of the summary computed at exit
\* (start_mem, end_mem, mem_diff, duration) can be read from the scope handle.
C2_SummaryOnHandle ==
  ScopeClosed =>
    \A k \in DOMAIN exitReturn[1] :
      k \in DOMAIN handle[1] /\ handle[1][k] = Some(exitReturn[1][k])

\* C3: a factory given interval <= 0 fails with InvalidConfigError at
\* construction: no measurement is taken and the work is never invoked.
C3_NonPositiveIntervalRejected ==
  (interval # None /\ interval[1] <= 0) =>
    /\ outcome = Raised("InvalidConfigError")
    /\ pc \in {"decorated", "block_made"}
    /\ initial_mem = None
    /\ enterCount = 0
    /\ workCalls = 0

\* C4: for a positive interval and a function that returns normally, the
\* wrapper calls the function exactly once with the forwarded arguments and
\* returns (return value, summary).
C4_ReturnsValueAndSummary ==
  (FnDone /\ interval[1] > 0 /\ WorkReturnedNormally) =>
    /\ workCalls = 1
    /\ seenArgs = <<args>>
    /\ outcome.kind = "returned"
    /\ outcome.value = Some(FuncValue(args))
    /\ {"initial_mem", "peak_mem", "avg_mem", "mem_diff", "duration"}
          \subseteq DOMAIN outcome.summary[1]

\* C5: for a positive interval the wrapper returns a summary with initial_mem <= peak_mem and
\* mem_diff = peak_mem - initial_mem >= 0, whatever the memory did.
C5_InitialAtMostPeak ==
  (FnDone /\ interval[1] > 0 /\ WorkReturnedNormally) =>
    /\ outcome.kind = "returned"
    /\ outcome.summary[1].initial_mem.val <= outcome.summary[1].peak_mem.val
    /\ outcome.summary[1].mem_diff.val
          = outcome.summary[1].peak_mem.val - outcome.summary[1].initial_mem.val
    /\ outcome.summary[1].mem_diff.val >= 0

\* C6: in the returned summary peak_mem is the maximum and avg_mem the mean of
\* the sampled memory values, so min <= avg <= max = peak.
C6_PeakIsMaxAvgIsMean ==
  (FnDone /\ interval[1] > 0 /\ WorkReturnedNormally) =>
    /\ outcome.kind = "returned"
    /\ outcome.summary[1].peak_mem = Num(SeqMax(SampleMems))
    /\ outcome.summary[1].avg_mem = Ratio(SeqSum(SampleMems), Len(SampleMems))
    /\ SeqMin(SampleMems) * Len(SampleMems) <= SeqSum(SampleMems)
    /\ SeqSum(SampleMems) <= SeqMax(SampleMems) * Len(SampleMems)

\* C7: when the wrapped function raises, the sampler is stopped, the caller
\* receives that same error, no (value, summary) pair is returned and no
\* summary log line is emitted for the call.
C7_WorkErrorPropagates ==
  (WorkRaised /\ outcome.kind # "pending") =>
    /\ sampler.pc = "killed"
    /\ outcome = Raised(returned[1].val)
    /\ emitted = <<>>

\* C8: the exit logic of a profile_block scope runs exactly once per entry on
\* every exit path (normal, early return, error): never before an entry, not
\* at all while the body runs, and once (one summary logged) when it closed.
C8_ExitOncePerEntry ==
  /\ exitCount <= enterCount
  /\ pc \in {"idle", "block_made"} => enterCount = 0 /\ exitCount = 0
  /\ pc \in {"block_body", "block_exiting"} =>
        enterCount = exitCount + 1 /\ emitted = <<>> /\ exitReturn = None
  /\ ScopeClosed =>
        /\ bodyExit.kind \in {"normal", "return", "raise"}
        /\ enterCount = exitCount
        /\ emitted = BlockLogLines
        /\ exitReturn # None

C8_Witness ==
  /\ ScopeClosed
  /\ bodyExit.kind = "raise"
  /\ enterCount = 2
  /\ exitCount = 2

\* C9: in every wrapper call and every scope, the initial memory query comes
\* before the work starts, and the final measurement and the end timestamp
\* are taken only after the work has completed.
WorkCompletedBefore(i) ==
  \E k \in 1..(i - 1) :
    /\ trace[k] = "work_end"
    /\ \A j \in (k + 1)..(i - 1) : trace[j] # "work_start"

C9_MeasurementOrder ==
  \A i \in 1..Len(trace) :
    /\ trace[i] = "work_start" => \E k \in 1..(i - 1) : trace[k] = "initial_query"
    /\ trace[i] \in {"final_sample", "final_query", "end_time"} =>
          WorkCompletedBefore(i)

C9_Witness ==
  /\ pc = "unpack"
  /\ workCalls = 2
  /\ workSteps > 0
  /\ \E i \in 1..Len(trace) : trace[i] = "final_sample"

\* C10: for a positive interval, when the work completes before the first poll interval elapses, the
\* wrapper still returns a well-formed summary whose peak and average fall
\* back to the initial measurement.
C10_ZeroSamplesFallback ==
  (FnDone /\ interval[1] > 0 /\ WorkReturnedNormally /\ sampler.polls = 0) =>
    /\ outcome.kind = "returned"
    /\ outcome.summary[1].peak_mem.val >= outcome.summary[1].initial_mem.val
    /\ outcome.summary[1].avg_mem.tag = "ratio"

====
